---- MODULE Spec2Model ----
(***************************************************************************)
(* Score ledger of the Space Runner bot: the scores table of the SQLite    *)
(* file, the save_score, get_leaderboard and get_user_stats request        *)
(* handlers of the Flask API, each run by concurrent request threads on a  *)
(* connection of its own.  save_score and the table follow src/bot.py;     *)
(* the Space Runner variant differs from it only in a last_played column   *)
(* that every INSERT and UPDATE stamps with CURRENT_TIMESTAMP and that no  *)
(* query reads.  get_user_stats with its rank and the chat stats path      *)
(* (my_stats, get_user_rank, get_total_players) follow the Space Runner    *)
(* variant.                                                                *)
(***************************************************************************)
EXTENDS Integers, Sequences, FiniteSets, TLC

\* ------------------------------------------------------------------ bounds
NumProcs == 2
NumUsers == 2
MaxScore == 1
MaxCalls == 3
NumLbUsers == 6

\* ------------------------------------------------------- program constants
\* LIMIT of the API leaderboard query (Space Runner variant)
ApiLimit == 20
\* LIMIT of the chat leaderboard query (and of the API query of src/bot.py)
ChatLimit == 10
\* LIMIT of the chat leaderboard query of src/bot.py
MenuLimit == 5

Limits == {MenuLimit, ChatLimit, ApiLimit}

\* ------------------------------------------------------------------ values
Procs == 1..NumProcs
\* user_id values a request may carry; 0 is an integer that Python finds falsy
ReqUserIds == 0..NumUsers
Scores == (0 - 1)..MaxScore
\* "" stands for a name that is absent, null or empty (all falsy in Python)
Names == {"", "ann", "Ann"}
\* the <<username, first_name>> pairs a request carries
Profiles == {<<"", "">>, <<"ann", "Ann">>}

\* Python None / a present value
None == <<>>
Some(v) == <<v>>

\* the JSON body of POST /api/score as request.get_json() returns it;
\* present = FALSE is a missing or empty body, a None field is a key that is
\* absent or null (data.get gives None for both)
Body(uid, names, s) ==
    [present |-> TRUE, user_id |-> uid, username |-> names[1],
     first_name |-> names[2], score |-> s]
NoData == [present |-> FALSE, user_id |-> None, username |-> "",
           first_name |-> "", score |-> None]
Bodies ==
    {NoData} \cup
    {Body(uid, names, s) :
        uid \in {None} \cup {Some(u) : u \in ReqUserIds},
        names \in Profiles,
        s \in {None} \cup {Some(x) : x \in Scores}}

\* dbLock value of a write lock whose connection was dropped without close()
Abandoned == 0 - 1

VARIABLES
    table,        \* the rows of the scores table (committed state of the file)
    dbLock,       \* holder of SQLite's write lock: 0 free, p, or Abandoned
    pending,      \* table image inside the lock holder's open transaction
    calls,        \* number of requests received so far
    pc,           \* position of each request thread in its handler
    op,           \* the handler each thread runs
    data,         \* save_score: data = request.get_json()
    arg,          \* get_user_stats: user_id of the path; get_leaderboard: LIMIT
    existing,     \* save_score: existing = cursor.fetchone()
    message,      \* save_score: message
    outcome,      \* the response a finished handler returned
    logged,       \* the exception a handler logged in its except clause
    fetched,      \* get_leaderboard: the rows behind scores = cursor.fetchall()
    leaderboard,  \* get_leaderboard: the list it returns
    result,       \* get_user_stats: result = cursor.fetchone()
    stats,        \* get_user_stats: the object it returns
    issued,       \* history, per user: save_score calls that passed validation
    accepted      \* history, per user: save_score calls that returned success

vars == <<table, dbLock, pending, calls, pc, op, data, arg, existing, message,
          outcome, logged, fetched, leaderboard, result, stats, issued,
          accepted>>

locals == <<data, arg, existing, message, fetched, leaderboard, result, stats>>

\* history of the submissions of one user: how many, and which scores
NoCalls == [n |-> 0, scores |-> {}]
Record(h, u, s) == [h EXCEPT ![u] = [n |-> @.n + 1, scores |-> @.scores \cup {s}]]

\* ------------------------------------------------------------- the table
\* CREATE TABLE scores: one row
Row(u, un, fn, s, gp) ==
    [user_id |-> u, username |-> un, first_name |-> fn, score |-> s,
     games_played |-> gp]

RowsOf(t, u) == {r \in t : r.user_id = u}

HasRow(t, u) == RowsOf(t, u) # {}

\* SELECT score FROM scores WHERE user_id = ? ; fetchone(): the set of values
\* fetchone() may return (None when no row matches)
SelectScore(t, u) ==
    IF RowsOf(t, u) = {} THEN {None}
    ELSE {Some(r.score) : r \in RowsOf(t, u)}

\* `if not user_id`: None and 0 are falsy
IsFalsy(v) == v = None \/ v = Some(0)

\* IsHigher with the comparison turned round
IsLower(score, old) == score < old

\* IsHigher with an equal score counted as an improvement
IsAtLeast(score, old) == score >= old

\* `if score > existing[0]`
IsHigher(score, old) == score > old

\* a scores table whose user_id column is no key
NoPrimaryKey(t, u) == FALSE

\* user_id INTEGER PRIMARY KEY: an INSERT of a user_id that has a row fails
PrimaryKeyViolation(t, u) == HasRow(t, u)

\* InsertRow with the play counter started at 0
InsertRowNoPlay(t, u, un, fn, s) == t \cup {Row(u, un, fn, s, 0)}

\* INSERT INTO scores (user_id, username, first_name, score, games_played)
\* VALUES (?, ?, ?, ?, 1)
InsertRow(t, u, un, fn, s) == t \cup {Row(u, un, fn, s, 1)}

\* UpdateHighScore that leaves games_played as it is
UpdateHighScoreOnly(t, u, un, fn, s) ==
    {IF r.user_id = u
       THEN Row(u, un, fn, s, r.games_played)
       ELSE r : r \in t}

\* UPDATE scores SET score = ?, username = ?, first_name = ?,
\* games_played = games_played + 1 WHERE user_id = ?
UpdateHighScore(t, u, un, fn, s) ==
    {IF r.user_id = u
       THEN Row(u, un, fn, s, r.games_played + 1)
       ELSE r : r \in t}

\* UpdatePlayCount without the increment
UpdateNothing(t, u) == t

\* UpdatePlayCount without its WHERE clause: every row is counted up
UpdateEveryPlayCount(t, u) ==
    {[r EXCEPT !.games_played = r.games_played + 1] : r \in t}

\* UPDATE scores SET games_played = games_played + 1 WHERE user_id = ?
UpdatePlayCount(t, u) ==
    {IF r.user_id = u
       THEN [r EXCEPT !.games_played = r.games_played + 1]
       ELSE r : r \in t}

\* RolledBack for a store that keeps what a dropped transaction wrote
CommittedAnyway(committed, txn) == txn

\* a connection dropped with its transaction open: SQLite rolls the
\* transaction back, the file keeps the committed table
RolledBack(committed, txn) == committed

\* ------------------------------------------------------------------- Init
Init ==
    /\ table = {}
    /\ dbLock = 0
    /\ pending = {}
    /\ calls = 0
    /\ pc = [p \in Procs |-> "idle"]
    /\ op = [p \in Procs |-> "none"]
    /\ data = [p \in Procs |-> NoData]
    /\ arg = [p \in Procs |-> 0]
    /\ existing = [p \in Procs |-> None]
    /\ message = [p \in Procs |-> ""]
    /\ outcome = [p \in Procs |-> ""]
    /\ logged = [p \in Procs |-> ""]
    /\ fetched = [p \in Procs |-> <<>>]
    /\ leaderboard = [p \in Procs |-> <<>>]
    /\ result = [p \in Procs |-> None]
    /\ stats = [p \in Procs |-> None]
    /\ issued = [u \in 1..NumUsers |-> NoCalls]
    /\ accepted = [u \in 1..NumUsers |-> NoCalls]

\* the server hands a request to its first free thread
Free(p) == pc[p] = "idle" /\ \A q \in Procs : q < p => pc[q] # "idle"

\* ------------------------------------------------------------- save_score
\* request parsing, validation, connect and the SELECT
SaveScoreRead(p, body) ==
    /\ Free(p)
    /\ calls < MaxCalls
    /\ calls' = calls + 1
    /\ op' = [op EXCEPT ![p] = "save_score"]
    /\ data' = [data EXCEPT ![p] = body]
    /\ logged' = [logged EXCEPT ![p] = ""]
    /\ IF ~body.present
         THEN /\ outcome' = [outcome EXCEPT ![p] = "400 No data provided"]
              /\ pc' = [pc EXCEPT ![p] = "done"]
              /\ UNCHANGED <<existing, issued>>
         ELSE IF IsFalsy(body.user_id) \/ body.score = None
         THEN /\ outcome' = [outcome EXCEPT ![p] = "400 Missing user_id or score"]
              /\ pc' = [pc EXCEPT ![p] = "done"]
              /\ UNCHANGED <<existing, issued>>
         ELSE /\ \E e \in SelectScore(table, body.user_id[1]) :
                    existing' = [existing EXCEPT ![p] = e]
              /\ issued' = Record(issued, body.user_id[1], body.score[1])
              /\ outcome' = [outcome EXCEPT ![p] = ""]
              /\ pc' = [pc EXCEPT ![p] = "selected"]
    /\ UNCHANGED <<table, dbLock, pending, arg, message, fetched, leaderboard,
                   result, stats, accepted>>

\* the INSERT or UPDATE statement: it opens the connection's transaction and
\* takes the write lock, which it gets only when no connection holds it
SaveScoreWrite(p) ==
    /\ pc[p] = "selected"
    /\ op[p] = "save_score"
    /\ dbLock = 0
    /\ LET u == data[p].user_id[1]
           s == data[p].score[1]
           un == data[p].username
           fn == data[p].first_name
       IN IF existing[p] # None
            THEN /\ IF IsHigher(s, existing[p][1])
                      THEN /\ pending' = UpdateHighScore(table, u, un, fn, s)
                           /\ message' = [message EXCEPT ![p] = "New high score saved!"]
                      ELSE /\ pending' = UpdatePlayCount(table, u)
                           /\ message' = [message EXCEPT ![p] =
                                             "Score updated (not a high score)"]
                 /\ dbLock' = p
                 /\ pc' = [pc EXCEPT ![p] = "written"]
                 /\ UNCHANGED <<outcome, logged>>
            ELSE IF PrimaryKeyViolation(table, u)
            THEN \* sqlite3.IntegrityError, caught by `except Exception`; the
                 \* connection is dropped with its transaction still open
                 /\ dbLock' = Abandoned
                 /\ pending' = table
                 /\ outcome' = [outcome EXCEPT ![p] = "500 Internal server error"]
                 /\ logged' = [logged EXCEPT ![p] = "IntegrityError"]
                 /\ pc' = [pc EXCEPT ![p] = "done"]
                 /\ UNCHANGED message
            ELSE /\ pending' = InsertRow(table, u, un, fn, s)
                 /\ message' = [message EXCEPT ![p] = "First score saved!"]
                 /\ dbLock' = p
                 /\ pc' = [pc EXCEPT ![p] = "written"]
                 /\ UNCHANGED <<outcome, logged>>
    /\ UNCHANGED <<table, calls, op, data, arg, existing, fetched, leaderboard,
                   result, stats, issued, accepted>>

\* conn.commit(); conn.close(); return the success response
SaveScoreCommit(p) ==
    /\ pc[p] = "written"
    /\ op[p] = "save_score"
    /\ dbLock = p
    /\ table' = pending
    /\ pending' = {}
    /\ dbLock' = 0
    /\ outcome' = [outcome EXCEPT ![p] = message[p]]
    /\ accepted' = Record(accepted, data[p].user_id[1], data[p].score[1])
    /\ pc' = [pc EXCEPT ![p] = "done"]
    /\ UNCHANGED <<calls, op, data, arg, existing, message, logged,
                   fetched, leaderboard, result, stats, issued>>

\* the write statement waits for a write lock another connection holds and
\* gives up after the connection's timeout: OperationalError (database is
\* locked), caught by `except Exception`
LockTimeout(p) ==
    /\ pc[p] = "selected"
    /\ op[p] = "save_score"
    /\ dbLock # 0
    /\ outcome' = [outcome EXCEPT ![p] = "500 Internal server error"]
    /\ logged' = [logged EXCEPT ![p] = "OperationalError: database is locked"]
    /\ pc' = [pc EXCEPT ![p] = "done"]
    /\ UNCHANGED <<table, dbLock, pending, calls, op, data, arg, existing,
                   message, fetched, leaderboard, result, stats, issued, accepted>>

\* a storage fault (disk I/O error, full disk) raised by the write statement
\* or by commit(): caught by `except Exception`, which returns 500 without
\* rollback() or close(); a transaction the connection had open is discarded
\* with the connection
StorageFault(p) ==
    /\ pc[p] \in {"selected", "written", "ranking"}
    /\ table' = RolledBack(table, IF dbLock = p THEN pending ELSE table)
    /\ dbLock' = IF dbLock = p THEN Abandoned ELSE dbLock
    /\ outcome' = [outcome EXCEPT ![p] = "500 Internal server error"]
    /\ logged' = [logged EXCEPT ![p] = "OperationalError: disk I/O error"]
    /\ pc' = [pc EXCEPT ![p] = "done"]
    /\ UNCHANGED <<pending, calls, op, data, arg, existing, message,
                   fetched, leaderboard, result, stats, issued, accepted>>

\* the garbage collector finalizes a dropped connection: its open
\* transaction is rolled back and its write lock released
FinalizeConnection ==
    /\ dbLock = Abandoned
    /\ dbLock' = 0
    /\ table' = RolledBack(table, pending)
    /\ pending' = {}
    /\ UNCHANGED <<calls, pc, op, locals, outcome, logged, issued, accepted>>

\* the handler has returned; the thread is free for the next request
Return(p) ==
    /\ pc[p] = "done"
    /\ pc' = [pc EXCEPT ![p] = "idle"]
    /\ op' = [op EXCEPT ![p] = "none"]
    /\ data' = [data EXCEPT ![p] = NoData]
    /\ arg' = [arg EXCEPT ![p] = 0]
    /\ existing' = [existing EXCEPT ![p] = None]
    /\ message' = [message EXCEPT ![p] = ""]
    /\ outcome' = [outcome EXCEPT ![p] = ""]
    /\ logged' = [logged EXCEPT ![p] = ""]
    /\ fetched' = [fetched EXCEPT ![p] = <<>>]
    /\ leaderboard' = [leaderboard EXCEPT ![p] = <<>>]
    /\ result' = [result EXCEPT ![p] = None]
    /\ stats' = [stats EXCEPT ![p] = None]
    /\ UNCHANGED <<table, dbLock, pending, calls, issued, accepted>>

\* ------------------------------------------------------------ the readers
\* an ORDER BY that gives rows of equal scores in any order: every order
\* of the rows with the scores descending
RECURSIVE OrderTiesAnyhow(_)
OrderTiesAnyhow(rows) ==
    IF rows = {} THEN {<<>>}
    ELSE UNION {{<<r>> \o rest : rest \in OrderTiesAnyhow(rows \ {r})} :
                r \in {x \in rows : \A y \in rows : y.score <= x.score}}

\* the rows as the engine's sorter returns them: by score descending, rows
\* of equal scores in the order of the table scan, which is the order of
\* the rowid, and user_id INTEGER PRIMARY KEY is the rowid
RECURSIVE SortedRows(_)
SortedRows(rows) ==
    IF rows = {} THEN <<>>
    ELSE LET r == CHOOSE x \in rows : \A y \in rows :
                      \/ y.score < x.score
                      \/ y.score = x.score /\ y.user_id >= x.user_id
         IN <<r>> \o SortedRows(rows \ {r})

\* ORDER BY score DESC: the results the query can give for a table.  SQL
\* leaves the order of rows with equal scores open; SQLite fixes it by the
\* table alone, so the same table gives the same result in every call
OrderByScoreDesc(rows) == {SortedRows(rows)}

\* Limit that lets one row too many through
LimitPlusOne(ordered, n) ==
    SubSeq(ordered, 1, IF Len(ordered) < n + 1 THEN Len(ordered) ELSE n + 1)

\* LIMIT n on an ordered result
Limit(ordered, n) ==
    SubSeq(ordered, 1, IF Len(ordered) < n THEN Len(ordered) ELSE n)

\* display_name = first_name or username or f'Player {i}'
DisplayName(fn, un, i) ==
    IF fn # "" THEN fn ELSE IF un # "" THEN un ELSE "Player " \o ToString(i)

\* the loop of get_leaderboard over enumerate(scores, 1)
Entries(scores) ==
    [i \in 1..Len(scores) |->
        [rank |-> i,
         name |-> DisplayName(scores[i].first_name, scores[i].username, i),
         score |-> scores[i].score,
         games_played |-> scores[i].games_played]]

\* all_users.index(user_id): the first position (from 0) that holds user_id
RECURSIVE Index(_, _)
Index(all_users, u) ==
    IF all_users[1] = u THEN 0 ELSE 1 + Index(Tail(all_users), u)

\* user_rank = all_users.index(user_id) + 1 if user_id in all_users else None
UserRank(all_users, u) ==
    IF \E i \in 1..Len(all_users) : all_users[i] = u
      THEN Some(Index(all_users, u) + 1)
      ELSE None

\* GET /api/leaderboard: one SELECT ... ORDER BY score DESC LIMIT n
GetLeaderboard(p, n) ==
    /\ Free(p)
    /\ calls < MaxCalls
    /\ calls' = calls + 1
    /\ op' = [op EXCEPT ![p] = "get_leaderboard"]
    /\ arg' = [arg EXCEPT ![p] = n]
    /\ \E ordered \in OrderByScoreDesc(table) :
          /\ fetched' = [fetched EXCEPT ![p] = Limit(ordered, n)]
          /\ leaderboard' = [leaderboard EXCEPT ![p] = Entries(Limit(ordered, n))]
    /\ outcome' = [outcome EXCEPT ![p] = "200"]
    /\ logged' = [logged EXCEPT ![p] = ""]
    /\ pc' = [pc EXCEPT ![p] = "done"]
    /\ UNCHANGED <<table, dbLock, pending, data, existing, message, result,
                   stats, issued, accepted>>

\* SELECT score, games_played ... WHERE user_id = ?; fetchone(): the row of
\* the user, or None when the query has no row
SelectStats(t, u) ==
    IF RowsOf(t, u) = {} THEN {None}
    ELSE {Some([score |-> r.score, games_played |-> r.games_played]) :
          r \in RowsOf(t, u)}

\* a test that takes every fetchone() result for a row
FoundAlways(res) == TRUE

\* `if result:` is true for a fetched row and false for None
Found(res) == res # None

\* GET /api/user_stats/<user_id>: the SELECT of the user's row
GetUserStatsRead(p, u) ==
    /\ Free(p)
    /\ calls < MaxCalls
    /\ calls' = calls + 1
    /\ op' = [op EXCEPT ![p] = "get_user_stats"]
    /\ arg' = [arg EXCEPT ![p] = u]
    /\ logged' = [logged EXCEPT ![p] = ""]
    /\ \E r \in SelectStats(table, u) :
          /\ result' = [result EXCEPT ![p] = r]
          /\ IF Found(r)
               THEN /\ outcome' = [outcome EXCEPT ![p] = ""]
                    /\ pc' = [pc EXCEPT ![p] = "ranking"]
               ELSE /\ outcome' = [outcome EXCEPT ![p] = "404 User not found"]
                    /\ pc' = [pc EXCEPT ![p] = "done"]
    /\ UNCHANGED <<table, dbLock, pending, data, existing, message, fetched, leaderboard,
                   stats, issued, accepted>>

\* get_user_stats: the SELECT user_id ... ORDER BY score DESC and the response
GetUserStatsRank(p) ==
    /\ pc[p] = "ranking"
    /\ op[p] = "get_user_stats"
    /\ \E ordered \in OrderByScoreDesc(table) :
          LET all_users == [i \in 1..Len(ordered) |-> ordered[i].user_id]
          IN stats' = [stats EXCEPT ![p] =
                 Some([score |-> result[p][1].score,
                       games_played |-> result[p][1].games_played,
                       rank |-> UserRank(all_users, arg[p]),
                       total_players |-> Len(all_users)])]
    /\ outcome' = [outcome EXCEPT ![p] = "200"]
    /\ pc' = [pc EXCEPT ![p] = "done"]
    /\ UNCHANGED <<table, dbLock, pending, calls, op, data, arg, existing,
                   message, logged, fetched, leaderboard, result, issued, accepted>>

\* --------------------------------------------------- the chat stats path
\* get_user_rank with enumerate(all_users) counting from 0
GetUserRankFromZero(all_users, u) ==
    IF \E i \in 1..Len(all_users) : all_users[i] = u
      THEN Some((CHOOSE i \in 1..Len(all_users) :
                    /\ all_users[i] = u
                    /\ \A j \in 1..(i - 1) : all_users[j] # u) - 1)
      ELSE None

\* get_user_rank: the loop over enumerate(all_users, 1) returns the rank of
\* the first position that holds user_id, and None after the loop
GetUserRank(all_users, u) ==
    IF \E i \in 1..Len(all_users) : all_users[i] = u
      THEN Some(CHOOSE i \in 1..Len(all_users) :
                    /\ all_users[i] = u
                    /\ \A j \in 1..(i - 1) : all_users[j] # u)
      ELSE None

\* get_total_players: SELECT COUNT(*) FROM scores
GetTotalPlayers(t) == Cardinality(t)

\* my_stats: the SELECT of the user's row on a connection of its own; a
\* user without a row is told 'Not ranked yet'
MyStatsRead(p, u) ==
    /\ Free(p)
    /\ calls < MaxCalls
    /\ calls' = calls + 1
    /\ op' = [op EXCEPT ![p] = "my_stats"]
    /\ arg' = [arg EXCEPT ![p] = u]
    /\ logged' = [logged EXCEPT ![p] = ""]
    /\ \E r \in SelectStats(table, u) :
          /\ result' = [result EXCEPT ![p] = r]
          /\ IF Found(r)
               THEN /\ outcome' = [outcome EXCEPT ![p] = ""]
                    /\ pc' = [pc EXCEPT ![p] = "found"]
               ELSE /\ outcome' = [outcome EXCEPT ![p] = "Not ranked yet"]
                    /\ pc' = [pc EXCEPT ![p] = "done"]
    /\ UNCHANGED <<table, dbLock, pending, data, existing, message, fetched,
                   leaderboard, stats, issued, accepted>>

\* my_stats: rank = get_user_rank(user.id), a second connection's query
MyStatsRank(p) ==
    /\ pc[p] = "found"
    /\ op[p] = "my_stats"
    /\ \E ordered \in OrderByScoreDesc(table) :
          LET all_users == [i \in 1..Len(ordered) |-> ordered[i].user_id]
          IN stats' = [stats EXCEPT ![p] =
                 Some([rank |-> GetUserRank(all_users, arg[p])])]
    /\ pc' = [pc EXCEPT ![p] = "ranked"]
    /\ UNCHANGED <<table, dbLock, pending, calls, op, data, arg, existing,
                   message, outcome, logged, fetched, leaderboard, result,
                   issued, accepted>>

\* my_stats: total_players = get_total_players(), a third connection's
\* query, and the reply 'Rank: #{rank} of {total_players}'
MyStatsTotal(p) ==
    /\ pc[p] = "ranked"
    /\ op[p] = "my_stats"
    /\ stats' = [stats EXCEPT ![p] =
           Some([score |-> result[p][1].score,
                 games_played |-> result[p][1].games_played,
                 rank |-> stats[p][1].rank,
                 total_players |-> GetTotalPlayers(table)])]
    /\ outcome' = [outcome EXCEPT ![p] = "Your Space Runner Stats"]
    /\ pc' = [pc EXCEPT ![p] = "done"]
    /\ UNCHANGED <<table, dbLock, pending, calls, op, data, arg, existing,
                   message, logged, fetched, leaderboard, result, issued,
                   accepted>>

\* ----------------------------------------------------------- specification
\* the steps of the save_score handler
SaveStep(p) ==
    \/ \E body \in Bodies : SaveScoreRead(p, body)
    \/ SaveScoreWrite(p)
    \/ SaveScoreCommit(p)
    \/ LockTimeout(p)

\* the steps of the read handlers, asked about the users of `ids`
ReadStep(p, ids) ==
    \/ \E n \in Limits : GetLeaderboard(p, n)
    \/ \E u \in ids : GetUserStatsRead(p, u)
    \/ GetUserStatsRank(p)

\* a handler that has built its response returns it before any other thread
\* runs: Return touches nothing but the thread's own locals, so every
\* interleaving has the same effect as one of this kind
Settled == \A q \in Procs : pc[q] # "done"

Step(p) ==
    \/ Settled /\ SaveStep(p)
    \/ Settled /\ ReadStep(p, ReqUserIds)
    \/ Settled /\ StorageFault(p)
    \/ Return(p)

\* concurrent request threads
Next ==
    \/ \E p \in Procs : Step(p)
    \/ Settled /\ FinalizeConnection

Spec == Init /\ [][Next]_vars

\* one request at a time: a thread steps only while every other is idle
Solo(p) == \A q \in Procs \ {p} : pc[q] = "idle"

NextSeq ==
    \/ \E p \in Procs : Solo(p) /\ Step(p)
    \/ Settled /\ FinalizeConnection

SeqSpec == Init /\ [][NextSeq]_vars

\* the read handlers alone, one at a time, over a table that earlier first
\* submissions of up to NumLbUsers users have filled
LbUserIds == 1..NumLbUsers

LbRow(u, s) ==
    Row(u, IF u % 3 = 2 THEN "ann" ELSE "", IF u % 3 = 1 THEN "Ann" ELSE "",
        s, 1)

\* two scores are enough for rows that tie and rows that do not
LbScores == {0, 1}

LbTables ==
    UNION {{{LbRow(u, f[u]) : u \in ids} : f \in [ids -> LbScores]} :
           ids \in SUBSET LbUserIds}

InitRead ==
    /\ table \in LbTables
    /\ dbLock = 0
    /\ pending = {}
    /\ calls = 0
    /\ pc = [p \in Procs |-> "idle"]
    /\ op = [p \in Procs |-> "none"]
    /\ data = [p \in Procs |-> NoData]
    /\ arg = [p \in Procs |-> 0]
    /\ existing = [p \in Procs |-> None]
    /\ message = [p \in Procs |-> ""]
    /\ outcome = [p \in Procs |-> ""]
    /\ logged = [p \in Procs |-> ""]
    /\ fetched = [p \in Procs |-> <<>>]
    /\ leaderboard = [p \in Procs |-> <<>>]
    /\ result = [p \in Procs |-> None]
    /\ stats = [p \in Procs |-> None]
    /\ issued = [u \in 1..NumUsers |-> NoCalls]
    /\ accepted = [u \in 1..NumUsers |-> NoCalls]

NextRead ==
    \E p \in Procs :
        /\ Solo(p)
        /\ \/ ReadStep(p, {0} \cup LbUserIds)
           \/ Return(p)

ReadSpec == InitRead /\ [][NextRead]_vars

\* get_leaderboard calls of concurrent threads over a table no call writes:
\* a thread may ask while another still holds the response it has built
NextBoard ==
    \E p \in Procs :
        \/ \E n \in Limits : GetLeaderboard(p, n)
        \/ Return(p)

BoardSpec == InitRead /\ [][NextBoard]_vars

\* concurrent save_score calls on a healthy store: no storage fault and no
\* lock timeout (a writer that finds the lock taken waits for it)
NextRace ==
    \/ \E p \in Procs :
          \/ Settled /\ \E body \in Bodies : SaveScoreRead(p, body)
          \/ Settled /\ SaveScoreWrite(p)
          \/ Settled /\ SaveScoreCommit(p)
          \/ Return(p)
    \/ Settled /\ FinalizeConnection

RaceSpec == Init /\ [][NextRace]_vars

\* the chat stats path beside concurrent save_score calls on a healthy store
NextChat ==
    \/ \E p \in Procs :
          \/ Settled /\ \E body \in Bodies : SaveScoreRead(p, body)
          \/ Settled /\ SaveScoreWrite(p)
          \/ Settled /\ SaveScoreCommit(p)
          \/ Settled /\ \E u \in 1..NumUsers : MyStatsRead(p, u)
          \/ Settled /\ MyStatsRank(p)
          \/ Settled /\ MyStatsTotal(p)
          \/ Return(p)
    \/ Settled /\ FinalizeConnection

ChatSpec == Init /\ [][NextChat]_vars

\* ------------------------------------------------------------- vocabulary
UserIds == 1..NumUsers

Success ==
    {"First score saved!", "New high score saved!",
     "Score updated (not a high score)"}

Rejected == {"400 No data provided", "400 Missing user_id or score"}

Failed == "500 Internal server error"

\* errors of the store itself, as the except clause logs them
StoreErrors ==
    {"OperationalError: disk I/O error", "OperationalError: database is locked"}

SetMax(S) == CHOOSE x \in S : \A y \in S : y <= x

\* the step in which thread p's handler returns its response
Finishes(p) == pc[p] # "done" /\ pc'[p] = "done"

\* thread p has returned from save_score
SaveDone(p) == pc[p] = "done" /\ op[p] = "save_score"

\* the request of thread p names a user and a score
WellFormed(body) ==
    /\ body.present
    /\ body.user_id \in {Some(u) : u \in UserIds}
    /\ body.score # None

\* no call is between its first and its last step
Quiescent == \A p \in Procs : pc[p] \in {"idle", "done"}

\* ------------------------------------------------------------------ claims
\* C1: when save_score calls for one user run one after another, the stored
\* score after each accepted submission is the maximum of the scores
\* accepted so far for that user.
C1_MonotonicHighScore ==
    \A u \in UserIds :
        accepted[u].n > 0 =>
            /\ HasRow(table, u)
            /\ \A r \in RowsOf(table, u) : r.score = SetMax(accepted[u].scores)

\* three accepted submissions of three different scores, the last one lower
\* than the stored maximum
C1_Witness ==
    \E u \in UserIds, p \in Procs :
        /\ accepted[u].n = 3
        /\ Cardinality(accepted[u].scores) = 3
        /\ SaveDone(p)
        /\ data[p].user_id = Some(u)
        /\ outcome[p] = "Score updated (not a high score)"
        /\ \E r \in RowsOf(table, u) : r.score > data[p].score[1]

\* C3: when save_score calls run one after another, a user's games_played
\* equals the number of accepted submissions for that user (no row while
\* there is none), whether or not a submission improved the score.
C3_PlayCount ==
    \A u \in UserIds :
        IF accepted[u].n = 0
          THEN ~HasRow(table, u)
          ELSE /\ HasRow(table, u)
               /\ \A r \in RowsOf(table, u) : r.games_played = accepted[u].n

\* a user with three accepted submissions that all carried the same score
C3_Witness ==
    \E u \in UserIds :
        /\ accepted[u].n = 3
        /\ Cardinality(accepted[u].scores) = 1
        /\ \E r \in RowsOf(table, u) : r.games_played = 3

\* C4: with one call at a time, a well-formed save_score submission for a
\* user without a row returns 'First score saved!' and adds exactly one row,
\* of that user, with the submitted score and games_played = 1, all other
\* rows unchanged; the only other ending is a logged store error with the
\* table unchanged.
C4_FirstSubmission ==
    [][\A p \in Procs, u \in UserIds :
          ( /\ Finishes(p)
            /\ op'[p] = "save_score"
            /\ WellFormed(data'[p])
            /\ data'[p].user_id = Some(u)
            /\ ~HasRow(table, u) )
          =>
          \/ /\ outcome'[p] = "First score saved!"
             /\ table \subseteq table'
             /\ \E r \in table' :
                   /\ table' \ table = {r}
                   /\ r.user_id = u
                   /\ r.score = data'[p].score[1]
                   /\ r.games_played = 1
          \/ /\ outcome'[p] = Failed
             /\ logged'[p] \in StoreErrors
             /\ table' = table
      ]_vars

\* a first submission answered 'First score saved!' while another user's
\* row is in the table
C4_Witness ==
    \E p \in Procs, u \in UserIds :
        /\ SaveDone(p)
        /\ data[p].user_id = Some(u)
        /\ outcome[p] = "First score saved!"
        /\ \E r \in RowsOf(table, u) :
              r.games_played = 1 /\ r.score = data[p].score[1]
        /\ \E r \in table : r.user_id # u /\ r.games_played = 2

\* C5: with one call at a time, a well-formed save_score submission for a
\* user that has a row returns 'New high score saved!' exactly when the
\* submitted score is strictly greater than the stored one, and the row then
\* holds the submitted score, username and first_name; otherwise (lower or
\* equal) it returns 'Score updated (not a high score)'; the only other
\* ending is a logged store error.
C5_Outcome ==
    [][\A p \in Procs, u \in UserIds :
          ( /\ Finishes(p)
            /\ op'[p] = "save_score"
            /\ WellFormed(data'[p])
            /\ data'[p].user_id = Some(u)
            /\ HasRow(table, u) )
          =>
          \A old \in RowsOf(table, u) :
              \/ /\ data'[p].score[1] > old.score
                 /\ outcome'[p] = "New high score saved!"
                 /\ HasRow(table', u)
                 /\ \A r \in RowsOf(table', u) :
                       /\ r.score = data'[p].score[1]
                       /\ r.username = data'[p].username
                       /\ r.first_name = data'[p].first_name
              \/ /\ data'[p].score[1] <= old.score
                 /\ outcome'[p] = "Score updated (not a high score)"
              \/ /\ outcome'[p] = Failed
                 /\ logged'[p] \in StoreErrors
      ]_vars

\* a submission equal to the stored score answered 'not a high score' for a
\* user whose earlier submission was a new high score with new names
C5_Witness ==
    \E p \in Procs, u \in UserIds :
        /\ SaveDone(p)
        /\ data[p].user_id = Some(u)
        /\ outcome[p] = "Score updated (not a high score)"
        /\ \E r \in RowsOf(table, u) :
              /\ r.score = data[p].score[1]
              /\ r.games_played = 3
              /\ r.username # data[p].username

\* C2: concurrent save_score calls for one user with pairwise different
\* scores, run to the end on a healthy store under any interleaving, leave
\* that user's row with the maximum of the submitted scores and with
\* games_played equal to the number of submissions.
C2_ConcurrentSubmissions ==
    \A u \in UserIds :
        ( /\ Quiescent
          /\ issued[u].n > 0
          /\ Cardinality(issued[u].scores) = issued[u].n )
        =>
        /\ HasRow(table, u)
        /\ \A r \in RowsOf(table, u) :
              /\ r.score = SetMax(issued[u].scores)
              /\ r.games_played = issued[u].n

\* C6: the rank get_user_stats returns for a user is 1 + the number of rows
\* with a strictly greater score, and total_players is the number of rows,
\* also when rows share a score.
C6_RankConsistency ==
    \A p \in Procs :
        (pc[p] = "done" /\ op[p] = "get_user_stats" /\ outcome[p] = "200") =>
            \A r \in RowsOf(table, arg[p]) :
                /\ stats[p][1].rank =
                      Some(1 + Cardinality({x \in table : x.score > r.score}))
                /\ stats[p][1].total_players = Cardinality(table)

\* C7: over a table of N rows, get_leaderboard with LIMIT L returns
\* min(L, N) entries (none for the empty table), ranked 1, 2, ... in order,
\* with scores that never increase along the list, each entry one row of
\* the table, and no row left out has a score strictly greater than a
\* returned one.
C7_Leaderboard ==
    \A p \in Procs :
        (pc[p] = "done" /\ op[p] = "get_leaderboard") =>
            LET lb == leaderboard[p]
                rows == fetched[p]
                n == Cardinality(table)
                k == IF arg[p] < n THEN arg[p] ELSE n
            IN /\ outcome[p] = "200"
               /\ Len(lb) = k
               /\ Len(rows) = k
               /\ \A i \in 1..k :
                     /\ lb[i].rank = i
                     /\ rows[i] \in table
                     /\ lb[i].score = rows[i].score
               /\ \A i, j \in 1..k :
                     i < j => (lb[i].score >= lb[j].score /\ rows[i] # rows[j])
               /\ \A r \in table \ {rows[i] : i \in 1..k} :
                     \A i \in 1..k : r.score <= lb[i].score

\* a leaderboard cut by its LIMIT, with different scores in it and a row
\* left out that ties with the last entry
C7_Witness ==
    \E p \in Procs :
        /\ pc[p] = "done"
        /\ op[p] = "get_leaderboard"
        /\ Cardinality(table) > arg[p]
        /\ Len(leaderboard[p]) = arg[p]
        /\ leaderboard[p][1].score > leaderboard[p][arg[p]].score
        /\ \E r \in table :
              /\ \A i \in 1..arg[p] : fetched[p][i] # r
              /\ r.score = leaderboard[p][arg[p]].score

\* C8: save_score answers 400 exactly when the body is missing or user_id
\* or score is absent; a request with an integer user_id and an integer
\* score is accepted.
C8_Validation ==
    \A p \in Procs :
        SaveDone(p) =>
            /\ outcome[p] \in Rejected <=>
                  \/ ~data[p].present
                  \/ data[p].user_id = None
                  \/ data[p].score = None
            /\ outcome[p] \in Rejected \cup Success \cup {Failed}

\* C9: a save_score call that ends with the 500 response leaves the table
\* as it was: the step that ends it changes no row, and the table changes
\* only in a step in which a save_score call returns success.
C9_FailureAtomic ==
    [][/\ \A p \in Procs :
            (Finishes(p) /\ op'[p] = "save_score" /\ outcome'[p] = Failed)
                => table' = table
       /\ table' # table =>
            \E p \in Procs :
                /\ Finishes(p)
                /\ op'[p] = "save_score"
                /\ outcome'[p] \in Success
      ]_vars

\* a call that failed after its UPDATE or INSERT ran: its transaction holds
\* a change the table does not show
C9_Witness ==
    \E p \in Procs :
        /\ SaveDone(p)
        /\ outcome[p] = Failed
        /\ message[p] = "New high score saved!"
        /\ dbLock = Abandoned
        /\ pending # table

\* C10: under any interleaving of save_score, get_leaderboard and
\* get_user_stats calls the table holds at most one row per user_id, and a
\* user_id that has a row keeps one.
C10_OneRowPerUser ==
    [][/\ \A u \in ReqUserIds : Cardinality(RowsOf(table', u)) <= 1
       /\ \A u \in ReqUserIds : HasRow(table, u) => HasRow(table', u)
      ]_vars

\* two calls that both found no row for the user: one has inserted it, the
\* other has just got the key violation
C10_Witness ==
    \E p \in Procs, u \in UserIds :
        /\ SaveDone(p)
        /\ data[p].user_id = Some(u)
        /\ logged[p] = "IntegrityError"
        /\ Cardinality(RowsOf(table, u)) = 1
        /\ \E r \in RowsOf(table, u) : r.score # data[p].score[1]

\* C11: get_user_stats for a user_id that has no row answers 404 'User not
\* found' in its first step, with no stats and no server error, whatever
\* rows the table holds (none included), and leaves the table as it was.
C11_NotFound ==
    [][\A p \in Procs :
          ( /\ pc[p] = "idle"
            /\ op'[p] = "get_user_stats"
            /\ ~HasRow(table, arg'[p]) )
          =>
          /\ pc'[p] = "done"
          /\ outcome'[p] = "404 User not found"
          /\ result'[p] = None
          /\ stats'[p] = None
          /\ table' = table
      ]_vars

\* the lookup of a user answered 404 on the empty table
C11_Witness ==
    \E p \in Procs :
        /\ pc[p] = "done"
        /\ op[p] = "get_user_stats"
        /\ arg[p] \in LbUserIds
        /\ table = {}
        /\ outcome[p] = "404 User not found"

C14_ConcurrentPlayCount ==
    \A u \in UserIds :
        /\ Cardinality(RowsOf(table, u)) = IF accepted[u].n = 0 THEN 0 ELSE 1
        /\ \A r \in RowsOf(table, u) : r.games_played = accepted[u].n

\* three successful calls of one user, the last two on the same stale read:
\* the later commit has lowered the score, and the count is still three
C14_Witness ==
    \E u \in UserIds :
        /\ accepted[u].n = 3
        /\ \E r \in RowsOf(table, u) :
              /\ r.games_played = 3
              /\ r.score < SetMax(accepted[u].scores)

\* C15: in the chat stats path, whose three reads of the table are separate
\* queries, a user whose row was found is shown a rank that is a number
\* between 1 and the total shown, whatever concurrent save_score calls
\* commit between the reads.
C15_RankWithinTotal ==
    \A p \in Procs :
        (pc[p] = "done" /\ op[p] = "my_stats" /\ Found(result[p])) =>
            /\ stats[p] # None
            /\ stats[p][1].rank # None
            /\ 1 <= stats[p][1].rank[1]
            /\ stats[p][1].rank[1] <= stats[p][1].total_players

\* a reply 'rank 1 of 2' for a user below the other: the other user's
\* first score was committed after the rank was read and before the total
C15_Witness ==
    \E p \in Procs :
        /\ pc[p] = "done"
        /\ op[p] = "my_stats"
        /\ Found(result[p])
        /\ stats[p][1].rank = Some(1)
        /\ stats[p][1].total_players = 2
        /\ \E r \in table :
              /\ r.user_id # arg[p]
              /\ r.games_played = 1
              /\ r.score > result[p][1].score

====
